---- MODULE Spec2Model ----
(***************************************************************************)
(* Model of the UCD resolution scripts of colt-cpp                         *)
(* (scripts/unicode/parseunicode.py and scripts/unicode/colt.py).          *)
(*                                                                         *)
(* parse_unicodedata is modelled as a state machine: one step per line of  *)
(* UnicodeData.txt, one step per append of the tail-fill loop, the strip   *)
(* of the sentinel CodePointInfo(-1), and one step per PropList entry of   *)
(* the binary overlay.  Python dicts are objects: every record points to a *)
(* dict id in `heap`, so that dicts shared between records (range runs,    *)
(* the cached default_properties(), the tail fill) are shared in the model *)
(* too.  The code point space 0..0x10FFFF is scaled down to 0..MaxCP.      *)
(***************************************************************************)
EXTENDS Integers, Sequences, FiniteSets, TLC

\* ---------------------------------------------------------------- bounds
MaxCP == 3
MaxLines == 3
MaxLinesF == 1
MaxLinesB == 1
MaxBins == 1

VARIABLES
  pc,        \* position in parse_unicodedata: "lines", "tail", "overlay", "done"
  lines,     \* the lines of UnicodeData.txt: [cp, f] with f the raw fields after the code point
  li,        \* index of the next line of UnicodeData.txt
  cpl,       \* CODE_POINT_LIST: sequence of [cp, d, boxed] (d: dict id, boxed: CODE_POINT is a CodePoint)
  heap,      \* dict id -> the dict (property abbreviation -> value)
  dcached,   \* default_properties() has been computed (functools.cache)
  bins,      \* BINARY_PROPERTY = parse_properties(): sequence of [lo, hi, p]
  bi,        \* index of the next entry of the binary overlay loop
  defaults,  \* DEFAULT_VALUE of each column property of parse_propertyvalue()
  aRecs,     \* parse_propertyaliases: the records of PropertyAliases.txt (split on ';')
  ai,        \* index of the next record
  aMap,      \* PROPERTY_LIST: name -> abbreviation
  cl,        \* chunk: the list l
  cn,        \* chunk: the chunk count n
  ci,        \* chunk: the loop index i
  out,       \* chunk: the chunks yielded so far
  rs,        \* CodePointRange.from_str: the input string, a sequence of characters
  rres,      \* CodePointRange.from_str: "pending", or the result
  ti,        \* parse_propertytypes: index of the next record of aRecs
  tkind,     \* parse_propertytypes: the current kind
  tMap       \* parse_propertytypes: PROPERTY_LIST, name -> kind

nvars == <<pc, lines, li, cpl, heap, dcached, bins, bi, defaults>>
avars == <<aRecs, ai, aMap>>
cvars == <<cl, cn, ci, out>>
rvars == <<rs, rres>>
tvars == <<ti, tkind, tMap>>
vars == <<nvars, avars, cvars, rvars, tvars>>

Max(a, b) == IF a >= b THEN a ELSE b
Min(a, b) == IF a <= b THEN a ELSE b

\* ------------------------------------------------------------ constants
\* Python None (distinct from the literal default "None" of Numeric_Type)
NONE == "<py:None>"
DEPRECATED_PROPERTIES == {"isc", "ISO_Comment", "Script_Extensions", "scx"}

UNICODE_DATA_PROPERTIES ==
  <<"Name", "General_Category", "Canonical_Combining_Class", "Bidi_Class",
    "Decomposition_Type", "Numeric_Type", "Numeric_Value", "Numeric_Value",
    "Bidi_Mirrored", "Unicode_1_Name", "ISO_Comment", "Simple_Uppercase_Mapping",
    "Simple_Lowercase_Mapping", "Simple_Titlecase_Mapping">>

\* PROPERTY_ALIAS = parse_propertyaliases() for the names used here.
PROPERTY_ALIAS ==
  ("Name" :> "na") @@ ("General_Category" :> "gc") @@
  ("Canonical_Combining_Class" :> "ccc") @@ ("Bidi_Class" :> "bc") @@
  ("Decomposition_Type" :> "dt") @@ ("Numeric_Type" :> "nt") @@
  ("Numeric_Value" :> "nv") @@ ("Bidi_Mirrored" :> "Bidi_M") @@
  ("Unicode_1_Name" :> "na1") @@ ("Simple_Uppercase_Mapping" :> "suc") @@
  ("Simple_Lowercase_Mapping" :> "slc") @@ ("Simple_Titlecase_Mapping" :> "stc") @@
  ("White_Space" :> "WSpace") @@ ("Dash" :> "Dash")

ColumnAbbrevs == {PROPERTY_ALIAS[UNICODE_DATA_PROPERTIES[i]] :
                    i \in {j \in 1..Len(UNICODE_DATA_PROPERTIES) :
                             UNICODE_DATA_PROPERTIES[j] \notin DEPRECATED_PROPERTIES}}

NoDefault == [none |-> TRUE]
EmptyDict == [x \in {} |-> NONE]
DummyId == 0
DfltId == -1

\* ------------------------------------------------------------ helpers
\* dict[k] = v
Put(f, k, v) == [x \in DOMAIN f \cup {k} |-> IF x = k THEN v ELSE f[x]]
\* dict.update(o)
Update(f, o) == [x \in DOMAIN f \cup DOMAIN o |-> IF x \in DOMAIN o THEN o[x] ELSE f[x]]

HexDigits == <<"0","1","2","3","4","5","6","7","8","9","A","B","C","D","E","F">>
RECURSIVE HexW(_, _)
HexW(v, w) == IF w = 0 THEN "" ELSE HexW(v \div 16, w - 1) \o HexDigits[(v % 16) + 1]

\* CodePoint.int_to_hex
int_to_hex(v) == IF v <= 65535 THEN HexW(v, 4)
                 ELSE IF v <= 1048575 THEN HexW(v, 5) ELSE HexW(v, 6)

\* CodePointRange.__contains__ on a (begin, end) pair
InRange(c, r) == r[1] <= c /\ c <= r[2]

\* The names used in the model; the ones that end with ", Last>".
NameChar == "LATIN CAPITAL LETTER A"
NameFirst == "<CJK Ideograph, First>"
NameLast == "<CJK Ideograph, Last>"
EndsWithLast(n) == n \in {NameLast}

\* default_to_true_default(default), CODE_POINT being cpv
default_to_true_default(tok, cpv) ==
  CASE tok = "<code point>" -> int_to_hex(cpv)
    [] tok = "<none>"       -> NONE
    [] tok = "NaN"          -> NONE
    [] tok = "Unassigned"   -> "Cn"
    [] OTHER                -> tok

\* One iteration of the column loop of parse_unicodedata
ResolveFieldBad(p, field, cpv, dflts) ==
  IF field # "" THEN field
  ELSE IF dflts[p] # NoDefault
       THEN default_to_true_default(dflts[p].v, cpv)
       ELSE NONE
ResolveField(p, field, cpv, dflts) ==
  IF field # "" THEN field
  ELSE IF dflts[p] # NoDefault /\ InRange(cpv, dflts[p].r)
       THEN default_to_true_default(dflts[p].v, cpv)
       ELSE NONE

\* The column loop of parse_unicodedata (PROPERTIES before the update)
RECURSIVE FieldProps(_, _, _, _, _)
FieldProps(i, acc, f, cpv, dflts) ==
  IF i > Len(UNICODE_DATA_PROPERTIES) THEN acc
  ELSE IF UNICODE_DATA_PROPERTIES[i] \in DEPRECATED_PROPERTIES
       THEN FieldProps(i + 1, acc, f, cpv, dflts)
       ELSE LET p == PROPERTY_ALIAS[UNICODE_DATA_PROPERTIES[i]]
            IN FieldProps(i + 1, Put(acc, p, ResolveField(p, f[i], cpv, dflts)), f, cpv, dflts)

\* default_properties(), first called while CODE_POINT is cpv
RECURSIVE DefaultPropsRec(_, _, _, _)
DefaultPropsRec(j, acc, cpv, dflts) ==
  IF j > Len(UNICODE_DATA_PROPERTIES) THEN acc
  ELSE IF UNICODE_DATA_PROPERTIES[j] \in DEPRECATED_PROPERTIES
       THEN DefaultPropsRec(j + 1, acc, cpv, dflts)
       ELSE LET p == PROPERTY_ALIAS[UNICODE_DATA_PROPERTIES[j]]
                v == IF dflts[p] # NoDefault
                     THEN default_to_true_default(dflts[p].v, cpv) ELSE NONE
            IN DefaultPropsRec(j + 1, Put(acc, p, v), cpv, dflts)
default_properties(cpv, dflts) == DefaultPropsRec(1, EmptyDict, cpv, dflts)

\* other_properties: every PropList property seeded to 'N'
other_properties(bl) == [a \in {PROPERTY_ALIAS[bl[i].p] : i \in 1..Len(bl)} |-> "N"]

\* Number of gap-filled records range(previous_cp + 1, CODE_POINT.value)
GapCountBad(prev, c) == Max(0, c - prev)
GapCount(prev, c) == Max(0, c - prev - 1)
\* Number of range-run records range(previous_cp, CODE_POINT.value)
RunCountBad(prev, c) == Max(0, c - prev - 1)
RunCount(prev, c) == Max(0, c - prev)

\* CODE_POINT_LIST[-1].PROPERTIES, shared by the tail-fill records
TailDictBad(l) == DfltId
TailDict(l) == l[Len(l)].d

\* ------------------------------------------------------------ actions
\* One iteration of `for line in colt.lines_of(... 'UnicodeData.txt')`
ProcessLine ==
  /\ pc = "lines"
  /\ LET line  == lines[li]
         c     == line.cp
         props == Update(FieldProps(1, EmptyDict, line.f, c, defaults), other_properties(bins))
         prev  == cpl[Len(cpl)].cp
         cur   == [cp |-> c, d |-> li, boxed |-> TRUE]
         isRun == c # prev + 1 /\ EndsWithLast(props[PROPERTY_ALIAS["Name"]])
         ng    == GapCount(prev, c)
         callD == c # prev + 1 /\ ~isRun /\ ng > 0
         run   == [j \in 1..RunCount(prev, c) |-> [cp |-> prev + j, d |-> li, boxed |-> TRUE]]
         gap   == [j \in 1..ng |-> [cp |-> prev + j, d |-> DfltId, boxed |-> TRUE]]
     IN /\ heap' = [x \in DOMAIN heap |->
                      IF x = li THEN props
                      ELSE IF x = DfltId /\ callD /\ ~dcached
                           THEN default_properties(c, defaults)
                           ELSE heap[x]]
        /\ dcached' = (dcached \/ callD)
        /\ cpl' = IF c # prev + 1
                  THEN IF isRun THEN cpl \o run ELSE (cpl \o gap) \o <<cur>>
                  ELSE Append(cpl, cur)
  /\ li' = li + 1
  /\ pc' = IF li = Len(lines) THEN "tail" ELSE "lines"
  /\ UNCHANGED <<lines, bins, bi, defaults>>
  /\ UNCHANGED <<avars, cvars, rvars, tvars>>

\* One iteration of `while len(CODE_POINT_LIST) <= CodePoint.max_code_point() + 1`
TailFill ==
  /\ pc = "tail"
  /\ Len(cpl) <= MaxCP + 1
  /\ cpl' = Append(cpl, [cp |-> Len(cpl) - 1, d |-> TailDict(cpl), boxed |-> FALSE])
  /\ UNCHANGED <<pc, lines, li, heap, dcached, bins, bi, defaults>>
  /\ UNCHANGED <<avars, cvars, rvars, tvars>>

\* CODE_POINT_LIST = CODE_POINT_LIST[1:] once the while loop exits
EndTail ==
  /\ pc = "tail"
  /\ ~(Len(cpl) <= MaxCP + 1)
  /\ cpl' = Tail(cpl)
  /\ pc' = IF Len(bins) = 0 THEN "done" ELSE "overlay"
  /\ UNCHANGED <<lines, li, heap, dcached, bins, bi, defaults>>
  /\ UNCHANGED <<avars, cvars, rvars, tvars>>

\* One iteration of the binary overlay loop over BINARY_PROPERTY
Overlay ==
  /\ pc = "overlay"
  /\ LET e    == bins[bi]
         abrv == PROPERTY_ALIAS[e.p]
         ids  == {cpl[j + 1].d : j \in e.lo..e.hi}
     IN heap' = [x \in DOMAIN heap |-> IF x \in ids THEN Put(heap[x], abrv, "Y") ELSE heap[x]]
  /\ bi' = bi + 1
  /\ pc' = IF bi = Len(bins) THEN "done" ELSE "overlay"
  /\ UNCHANGED <<lines, li, cpl, dcached, bins, defaults>>
  /\ UNCHANGED <<avars, cvars, rvars, tvars>>

Next == ProcessLine \/ TailFill \/ EndTail \/ Overlay

\* ------------------------------------------------------------ inputs
SeqsUpTo(S, n) == UNION {[1..k -> S] : k \in 0..n}
CPs == 0..MaxCP
Full == <<0, MaxCP>>
Low == <<0, 0>>

\* The 14 fields after the code point; the ones not varied are empty.
Fields(na, gc, nv1, nv2, suc) == <<na, gc, "", "", "", "", nv1, nv2, "", "", "", suc, "", "">>

\* Lines for the shape specification: names vary, every explicit record is Lu.
ShapeLines == {[cp |-> c, f |-> Fields(n, "Lu", "", "", "")] :
                 c \in CPs, n \in {NameChar, NameFirst, NameLast}}

Ws(lo, hi) == [lo |-> lo, hi |-> hi, p |-> "White_Space"]

NormIdle == /\ pc = "done" /\ lines = <<>> /\ li = 1 /\ cpl = <<>> /\ heap = EmptyDict
            /\ dcached = FALSE /\ bins = <<>> /\ bi = 1 /\ defaults = EmptyDict
AliasIdle == aRecs = <<>> /\ ai = 1 /\ aMap = EmptyDict
ChunkIdle == cl = <<>> /\ cn = 1 /\ ci = 1 /\ out = <<>>
RangeIdle == rs = <<>> /\ rres = [state |-> "idle"]
KindIdle == ti = 1 /\ tkind = "NUM" /\ tMap = EmptyDict

InitWith(lineSet, maxLines, dfltSet, binSet) ==
  /\ lines \in SeqsUpTo(lineSet, maxLines)
  /\ defaults \in dfltSet
  /\ bins \in binSet
  /\ li = 1
  /\ pc = IF lines = <<>> THEN "tail" ELSE "lines"
  /\ cpl = << [cp |-> -1, d |-> DummyId, boxed |-> TRUE] >>
  /\ heap = [x \in {DfltId, DummyId} \cup 1..Len(lines) |-> EmptyDict]
  /\ dcached = FALSE
  /\ bi = 1
  /\ AliasIdle /\ ChunkIdle /\ RangeIdle /\ KindIdle

\* @missing defaults of the columns that are not varied (as in PropertyValueAliases.txt)
OtherDefaults ==
  ("ccc" :> [r |-> Full, v |-> "Not_Reordered"]) @@ ("bc" :> [r |-> Full, v |-> "L"]) @@
  ("dt" :> [r |-> Full, v |-> "None"]) @@ ("nt" :> [r |-> Full, v |-> "None"]) @@
  ("Bidi_M" :> NoDefault) @@ ("na1" :> [r |-> Full, v |-> "<none>"]) @@
  ("slc" :> [r |-> Full, v |-> "<code point>"]) @@ ("stc" :> [r |-> Full, v |-> "<code point>"])
Dflts(na, gc, nv, suc) == ("na" :> na) @@ ("gc" :> gc) @@ ("nv" :> nv) @@ ("suc" :> suc) @@ OtherDefaults

ShapeDefaults == {Dflts(NoDefault, [r |-> r, v |-> "Unassigned"], NoDefault, NoDefault) : r \in {Full, Low}}

Init == InitWith(ShapeLines, MaxLines, ShapeDefaults, {<<>>, <<Ws(1, 1)>>})

Spec == Init /\ [][Next]_vars

\* Inputs for the binary-overlay specification: PropList ranges vary.
BinEntries == {Ws(lo, hi) : lo \in CPs, hi \in CPs} \cap {e \in [lo : CPs, hi : CPs, p : {"White_Space"}] : e.lo <= e.hi}
InitBin == InitWith(ShapeLines, MaxLinesB, ShapeDefaults, SeqsUpTo(BinEntries, MaxBins))
SpecBin == InitBin /\ [][Next]_vars

\* Inputs for the field-resolution specification: raw fields and @missing defaults vary.
FieldLines == {[cp |-> c, f |-> Fields(NameChar, gc, nv1, nv2, suc)] :
                 c \in CPs, gc \in {"", "Lu"}, nv1 \in {"", "1"}, nv2 \in {"", "2"}, suc \in {"", "0041"}}
FieldDefaults ==
  {Dflts(NoDefault, g, n, u) :
     g \in {NoDefault, [r |-> Full, v |-> "Unassigned"], [r |-> Low, v |-> "Unassigned"]},
     n \in {NoDefault, [r |-> Full, v |-> "NaN"], [r |-> Low, v |-> "0"]},
     u \in {NoDefault, [r |-> Full, v |-> "<code point>"], [r |-> Low, v |-> "<none>"]}}
InitFields == InitWith(FieldLines, MaxLinesF, FieldDefaults, {<<Ws(1, 1)>>})
SpecFields == InitFields /\ [][Next]_vars

\* ============================================================ parse_propertyaliases
MaxAliasRecs == 2

\* The abbreviation every name of a record is mapped to: PROPERTY_LIST[...] = NAME
AliasTargetBad(split) == split[2]
AliasTarget(split) == split[1]

\* PROPERTY_LIST[NAME] = NAME; PROPERTY_LIST[VALUE] = NAME; then the further aliases
RECURSIVE AddNames(_, _, _)
AddNames(m, split, i) ==
  IF i > Len(split) THEN m
  ELSE AddNames(Put(m, split[i], AliasTarget(split)), split, i + 1)

\* One iteration of `for line in colt.lines_of(... 'PropertyAliases.txt')`
AliasStep ==
  /\ ai <= Len(aRecs)
  /\ LET split == aRecs[ai]
         NAME  == split[1]
         VALUE == split[2]
     IN aMap' = IF NAME \in DEPRECATED_PROPERTIES \/ VALUE \in DEPRECATED_PROPERTIES
                THEN aMap
                ELSE AddNames(aMap, split, 1)
  /\ ai' = ai + 1
  /\ UNCHANGED <<aRecs, nvars, cvars, rvars, tvars>>

AliasNext == AliasStep

AliasPool == {"gc", "General_Category", "Cat", "isc", "ISO_Comment"}
AliasRecords == {r \in UNION {[1..k -> AliasPool] : k \in 2..3} :
                   \A i, j \in DOMAIN r : i # j => r[i] # r[j]}
\* PropertyAliases.txt lists every name once
AliasTables == {t \in SeqsUpTo(AliasRecords, MaxAliasRecs) :
                  \A k, l \in DOMAIN t : k # l =>
                     \A i \in DOMAIN t[k], j \in DOMAIN t[l] : t[k][i] # t[l][j]}

AliasInit == aRecs \in AliasTables /\ ai = 1 /\ aMap = EmptyDict
             /\ NormIdle /\ ChunkIdle /\ RangeIdle /\ KindIdle
AliasSpec == AliasInit /\ [][AliasNext]_vars
AliasDone == ai > Len(aRecs)

\* ============================================================ colt.chunk
MaxL == 10
MaxN == 4

\* si = (d+1)*(i if i < r else r) + d*(0 if i < r else i - r)
ChunkStartBad(i, d, r) == d * i
ChunkStart(i, d, r) == (d + 1) * (IF i < r THEN i ELSE r) + d * (IF i < r THEN 0 ELSE i - r)
ChunkSize(i, d, r) == IF i < r THEN d + 1 ELSE d

\* Python slice l[a:b] for a, b >= 0
Slice(l, a, b) == LET a2 == Min(a, Len(l))
                      b2 == Min(b, Len(l))
                  IN [k \in 1..Max(0, b2 - a2) |-> l[a2 + k]]

\* One iteration of `for i in range(n)`: yield l[si:si+size]
ChunkStep ==
  /\ ci < cn
  /\ LET d  == Len(cl) \div cn
         r  == Len(cl) % cn
         si == ChunkStart(ci, d, r)
     IN out' = Append(out, Slice(cl, si, si + ChunkSize(ci, d, r)))
  /\ ci' = ci + 1
  /\ UNCHANGED <<cl, cn, nvars, avars, rvars, tvars>>

ChunkNext == ChunkStep

ChunkInit == /\ cl \in {[k \in 1..len |-> 10 * k] : len \in 0..MaxL}
             /\ cn \in 1..MaxN /\ ci = 0 /\ out = <<>>
             /\ NormIdle /\ AliasIdle /\ RangeIdle /\ KindIdle
ChunkSpec == ChunkInit /\ [][ChunkNext]_vars

\* ============================================================ CodePointRange.from_str
MaxHexLen == 7
MaxCodePoint == 1114111

HexChars == {"0","1","2","3","4","5","6","7","8","9","a","b","c","d","e","f",
             "A","B","C","D","E","F"}
HexValOf(ch) == CASE ch \in {"0","1","2","3","4","5","6","7","8","9"} ->
                       CHOOSE v \in 0..9 : HexDigits[v + 1] = ch
                  [] ch \in {"a","A"} -> 10 [] ch \in {"b","B"} -> 11 [] ch \in {"c","C"} -> 12
                  [] ch \in {"d","D"} -> 13 [] ch \in {"e","E"} -> 14 [] ch \in {"f","F"} -> 15
\* int(s[a..b], 16)
RECURSIVE HexVal(_, _, _)
HexVal(s, a, b) == IF b < a THEN 0 ELSE HexVal(s, a, b - 1) * 16 + HexValOf(s[b])

AllHex(s, a, b) == b <= Len(s) /\ \A k \in a..b : s[k] \in HexChars
NL == "\n"
\* `$`: end of string, or just before a final newline
EndOk(s, p) == p = Len(s) \/ (p = Len(s) - 1 /\ s[Len(s)] = NL)

\* CODE_POINT_RANGE_FROM_STR = ^([0-9a-fA-F]{4,6})(?:..([0-9a-fA-F]{4,6}))?$ with re.match:
\* the alternatives in backtracking order (greedy group 1, optional group tried first,
\* greedy group 2); g2 = 0 stands for the optional group not taken.
RegexOrder == << [g1 |-> 6, g2 |-> 6], [g1 |-> 6, g2 |-> 5], [g1 |-> 6, g2 |-> 4], [g1 |-> 6, g2 |-> 0],
                 [g1 |-> 5, g2 |-> 6], [g1 |-> 5, g2 |-> 5], [g1 |-> 5, g2 |-> 4], [g1 |-> 5, g2 |-> 0],
                 [g1 |-> 4, g2 |-> 6], [g1 |-> 4, g2 |-> 5], [g1 |-> 4, g2 |-> 4], [g1 |-> 4, g2 |-> 0] >>
\* `.` matches any character but a newline
AnyChar(ch) == ch # NL
AltMatches(s, alt) ==
  /\ AllHex(s, 1, alt.g1)
  /\ IF alt.g2 = 0 THEN EndOk(s, alt.g1)
     ELSE /\ Len(s) >= alt.g1 + 2 + alt.g2
          /\ AnyChar(s[alt.g1 + 1]) /\ AnyChar(s[alt.g1 + 2])
          /\ AllHex(s, alt.g1 + 3, alt.g1 + 2 + alt.g2)
          /\ EndOk(s, alt.g1 + 2 + alt.g2)
RegexMatch(s) ==
  LET hits == {k \in 1..Len(RegexOrder) : AltMatches(s, RegexOrder[k])}
  IN IF hits = {} THEN [ok |-> FALSE]
     ELSE LET alt == RegexOrder[CHOOSE k \in hits : \A k2 \in hits : k <= k2]
          IN [ok |-> TRUE, b |-> HexVal(s, 1, alt.g1),
              e |-> IF alt.g2 = 0 THEN HexVal(s, 1, alt.g1)
                    ELSE HexVal(s, alt.g1 + 3, alt.g1 + 2 + alt.g2)]

\* a raised ValueError
Failed == [ok |-> FALSE, b |-> -1, e |-> -1]

\* CodePointRange.from_str, with the checks of CodePoint.__init__ and CodePointRange.__init__
from_str(s) ==
  LET m == RegexMatch(s)
  IN IF ~m.ok THEN Failed
     ELSE IF m.b > MaxCodePoint \/ m.e > MaxCodePoint THEN Failed
     ELSE IF m.b > m.e THEN Failed
     ELSE [ok |-> TRUE, b |-> m.b, e |-> m.e]

ParseRange ==
  /\ rres.state = "pending"
  /\ rres' = LET f == from_str(rs) IN [state |-> "done", ok |-> f.ok, b |-> f.b, e |-> f.e]
  /\ UNCHANGED <<rs, nvars, avars, cvars, tvars>>

RangeNext == ParseRange

Zeros(k) == [i \in 1..k |-> "0"]
HexStrs == {<<a, b>> \o Zeros(k - 2) : a \in {"0", "1"}, b \in {"0", "1"}, k \in 3..MaxHexLen}
Seps == {<<>>, <<".", ".">>, <<"-", "-">>, <<".">>, <<NL, NL>>}
RangeInputs == {(h1 \o sep) \o (h2 \o nl) :
                  h1 \in HexStrs, sep \in Seps, h2 \in HexStrs \cup {<<>>}, nl \in {<<>>, <<NL>>}}
RangeInit == rs \in RangeInputs /\ rres = [state |-> "pending"] /\ NormIdle /\ AliasIdle /\ ChunkIdle /\ KindIdle
RangeSpec == RangeInit /\ [][RangeNext]_vars

\* ============================================================ parse_propertytypes
MaxKindRecs == 3

\* TO_NEW_KIND = { "bmg" : PropertyKind.STR, "age" : PropertyKind.ENM }
TO_NEW_KIND == ("bmg" :> "STR") @@ ("age" :> "ENM")

\* The field looked up in TO_NEW_KIND: NAME = split[0]
KindKeyBad(split) == split[2]
KindKey(split) == split[1]

\* PROPERTY_LIST[NAME] = kind; PROPERTY_LIST[VALUE] = kind; then the further aliases
RECURSIVE AddKinds(_, _, _, _)
AddKinds(m, split, i, k) ==
  IF i > Len(split) THEN m ELSE AddKinds(Put(m, split[i], k), split, i + 1, k)

\* One iteration of `for line in colt.lines_of(... 'PropertyAliases.txt')` in parse_propertytypes
KindStep ==
  /\ ti <= Len(aRecs)
  /\ LET split == aRecs[ti]
         k     == IF KindKey(split) \in DOMAIN TO_NEW_KIND THEN TO_NEW_KIND[KindKey(split)] ELSE tkind
     IN /\ tkind' = k
        /\ tMap' = AddKinds(tMap, split, 1, k)
  /\ ti' = ti + 1
  /\ UNCHANGED <<nvars, avars, cvars, rvars>>

KindNext == KindStep

KindPool == {"bmg", "Bidi_Mirroring_Glyph", "age", "Age", "gc", "cf"}
\* NAME ; VALUE ; further aliases (2 or 3 fields, names distinct)
KindRecords == {r \in UNION {[1..k -> KindPool] : k \in 2..3} :
                  \A i, j \in DOMAIN r : i # j => r[i] # r[j]}
\* Tables of at most n records, no name listed twice and none in `used`
RECURSIVE DisjointTables(_, _)
DisjointTables(n, used) ==
  IF n = 0 THEN {<<>>}
  ELSE {<<>>} \cup UNION {{<<r>> \o t : t \in DisjointTables(n - 1, used \cup {r[i] : i \in DOMAIN r})} :
                          r \in {x \in KindRecords : \A i \in DOMAIN x : x[i] \notin used}}
KindTables == DisjointTables(MaxKindRecs, {})
KindInit == aRecs \in KindTables /\ ai = 1 /\ aMap = EmptyDict /\ KindIdle
            /\ NormIdle /\ ChunkIdle /\ RangeIdle
KindSpec == KindInit /\ [][KindNext]_vars
KindDone == ti > Len(aRecs)

\* ------------------------------------------------------------ views of the result
Done == pc = "done"
Rec(c) == cpl[c + 1]
Val(c, p) == IF p \in DOMAIN heap[Rec(c).d] THEN heap[Rec(c).d][p] ELSE "KeyError"
Sorted == \A k \in 1..(Len(lines) - 1) : lines[k].cp < lines[k + 1].cp


IsFirst(k) == lines[k].f[1] = NameFirst
IsLastLine(k) == EndsWithLast(lines[k].f[1])
Explicit(c) == \E k \in 1..Len(lines) : lines[k].cp = c
\* Code point of the last record appended after lines 1..k (previous_cp of line k + 1):
\* a Last line appends its run up to its code point, or nothing if it is not above it.
RECURSIVE PrevAfter(_)
PrevAfter(k) == IF k = 0 THEN -1
                ELSE LET p == PrevAfter(k - 1)
                         c == lines[k].cp
                     IN IF c # p + 1 /\ IsLastLine(k) THEN Max(p, c) ELSE c
PrevCp(k) == PrevAfter(k - 1)
\* c is filled by the range run of a Last line
InRun(c) == \E k \in 1..Len(lines) :
              IsLastLine(k) /\ PrevCp(k) < c /\ c <= lines[k].cp
Complete == Len(cpl) = MaxCP + 1 /\ \A c \in CPs : Rec(c).cp = c

\* C1 (original): for every UnicodeData table, parse_unicodedata returns exactly
\* MaxCP + 1 records and the record at index i has code point i.
C1_Original == Done => Complete

\* C1 (amended): for every UnicodeData table whose code points are strictly
\* increasing, the result has exactly MaxCP + 1 records, record i having code point i.
C1_Sorted == (Done /\ Sorted) => Complete

C1_Witness == Done /\ Sorted /\ (\E c \in CPs : Rec(c).d = DfltId) /\ (\E c \in CPs : ~Rec(c).boxed)

C2Lines == << [cp |-> 1, f |-> Fields(NameChar, "Lu", "", "", "")] >>

\* C2: with a General_Category @missing default covering the whole code point
\* space and a single explicit record (code point 1, Lu), code point 1 has Lu
\* and every other code point has the declared default ("Unassigned" -> Cn).
C2_EndToEnd == (Done /\ lines = C2Lines /\ defaults["gc"].r = Full) =>
                 /\ Val(1, "gc") = "Lu"
                 /\ \A c \in CPs \ {1} : Val(c, "gc") = default_to_true_default(defaults["gc"].v, c)

\* C3 (original): every code point after the last explicit record shares the
\* last resolved record's property dict and carries its own code point.
C3_Original == (Done /\ Len(lines) >= 1) =>
                 \A c \in (lines[Len(lines)].cp + 1)..MaxCP :
                    Rec(c).d = Len(lines) /\ Rec(c).cp = c

\* C3 (amended): the same, for tables whose code points are strictly increasing.
C3_Sorted == (Done /\ Sorted /\ Len(lines) >= 1) =>
                 \A c \in (lines[Len(lines)].cp + 1)..MaxCP :
                    Rec(c).d = Len(lines) /\ Rec(c).cp = c

C3_Witness == Done /\ Sorted /\ Len(lines) >= 2 /\ lines[Len(lines)].cp < MaxCP

RunOk(k) == \A p \in DOMAIN heap[k] \cap DOMAIN heap[k + 1] :
              heap[k][p] = heap[k + 1][p] =>
                \A c \in lines[k].cp..lines[k + 1].cp : Val(c, p) = heap[k][p] /\ Rec(c).cp = c

\* C4 (original): a First record at X followed by a Last record at Y > X with
\* P = p in both gives P = p at every code point of [X, Y], each record
\* carrying its own code point.
C4_Original == Done =>
  \A k \in 1..(Len(lines) - 1) :
     (IsFirst(k) /\ IsLastLine(k + 1) /\ lines[k + 1].cp > lines[k].cp) => RunOk(k)

\* C4 (amended): the same, for tables whose code points are strictly increasing.
C4_Sorted == (Done /\ Sorted) =>
  \A k \in 1..(Len(lines) - 1) :
     (IsFirst(k) /\ IsLastLine(k + 1) /\ lines[k + 1].cp > lines[k].cp) => RunOk(k)

C4_Witness == Done /\ Sorted /\
  \E k \in 1..(Len(lines) - 1) : IsFirst(k) /\ IsLastLine(k + 1) /\ lines[k + 1].cp > lines[k].cp + 1

\* C5: a code point with no explicit record, outside every First/Last run and
\* with no General_Category default whose range contains it, has gc = Cn.
C5_GapDefault == Done =>
  \A c \in CPs :
     (~Explicit(c) /\ ~InRun(c) /\ ~(defaults["gc"] # NoDefault /\ InRange(c, defaults["gc"].r)))
        => Val(c, "gc") = "Cn"

BinAbbrevs == {PROPERTY_ALIAS[bins[i].p] : i \in 1..Len(bins)}
Listed(c, a) == \E i \in 1..Len(bins) : PROPERTY_ALIAS[bins[i].p] = a /\ bins[i].lo <= c /\ c <= bins[i].hi

\* C6: every record of the final table has P = 'Y' for a PropList property P
\* when its code point is inside a listed range of P and P = 'N' otherwise
\* (so setting 'Y' at one code point changes no other code point).
C6_BinaryOverlay == Done =>
  \A a \in BinAbbrevs : \A c \in CPs : Val(c, a) = IF Listed(c, a) THEN "Y" ELSE "N"

\* The column a property is read from (the last one for a repeated column).
LastCol(p) == CHOOSE i \in 1..Len(UNICODE_DATA_PROPERTIES) :
                /\ UNICODE_DATA_PROPERTIES[i] \notin DEPRECATED_PROPERTIES
                /\ PROPERTY_ALIAS[UNICODE_DATA_PROPERTIES[i]] = p
                /\ \A j \in (i + 1)..Len(UNICODE_DATA_PROPERTIES) :
                     UNICODE_DATA_PROPERTIES[j] \notin DEPRECATED_PROPERTIES =>
                       PROPERTY_ALIAS[UNICODE_DATA_PROPERTIES[j]] # p
ClaimToken(t, c) == IF t = "<code point>" THEN int_to_hex(c)
                    ELSE IF t \in {"<none>", "NaN"} THEN NONE
                    ELSE IF t = "Unassigned" THEN "Cn" ELSE t
Expected(k, p) ==
  LET raw == lines[k].f[LastCol(p)]
      c   == lines[k].cp
  IN IF raw # "" THEN raw
     ELSE IF defaults[p] # NoDefault /\ c \in defaults[p].r[1]..defaults[p].r[2]
          THEN ClaimToken(defaults[p].v, c)
          ELSE NONE

\* C10: the dict of every processed explicit record holds, for each column
\* property, the raw field if non-empty, else the resolved @missing default token
\* when its range contains the code point, else None.
C10_FieldResolution ==
  \A k \in 1..(li - 1) : \A p \in ColumnAbbrevs : heap[k][p] = Expected(k, p)

C10_Witness ==
  /\ li > 1
  /\ lines[1].f[12] = "" /\ defaults["suc"] # NoDefault /\ defaults["suc"].v = "<code point>"
  /\ InRange(lines[1].cp, defaults["suc"].r)
  /\ lines[1].f[7] # "" /\ lines[1].f[8] = "" /\ lines[1].f[2] = ""
  /\ defaults["gc"] # NoDefault /\ InRange(lines[1].cp, defaults["gc"].r)

DeprecatedRec(r) == r[1] \in DEPRECATED_PROPERTIES \/ r[2] \in DEPRECATED_PROPERTIES

\* C7 (original): every name and alias of a non-deprecated PropertyAliases
\* record resolves to the record's field index 1, that field resolves to itself,
\* and the names of a deprecated record do not resolve.
C7_Original == AliasDone =>
  \A k \in 1..Len(aRecs) :
     LET r == aRecs[k] IN
     IF DeprecatedRec(r) THEN \A i \in DOMAIN r : r[i] \notin DOMAIN aMap
     ELSE /\ \A i \in DOMAIN r : r[i] \in DOMAIN aMap /\ aMap[r[i]] = r[2]
          /\ aMap[r[2]] = r[2]

\* C7 (amended): every name and alias of a non-deprecated record resolves to the
\* record's field index 0 (its first field, the abbreviation in the UCD file),
\* that field resolves to itself, and the names of a deprecated record do not resolve.
C7_Field0 == AliasDone =>
  \A k \in 1..Len(aRecs) :
     LET r == aRecs[k] IN
     IF DeprecatedRec(r) THEN \A i \in DOMAIN r : r[i] \notin DOMAIN aMap
     ELSE /\ \A i \in DOMAIN r : r[i] \in DOMAIN aMap /\ aMap[r[i]] = r[1]
          /\ aMap[r[1]] = r[1]

C7_Witness == AliasDone /\ Len(aRecs) = 2 /\
  \E k \in 1..2 : ~DeprecatedRec(aRecs[k]) /\ Len(aRecs[k]) = 3 /\ DeprecatedRec(aRecs[3 - k])

RECURSIVE Concat(_)
Concat(s) == IF s = <<>> THEN <<>> ELSE s[1] \o Concat(Tail(s))

\* C8: for every list length L and count N >= 1, chunk(l, N) yields N
\* contiguous chunks with sizes summing to L, pairwise differing by at most 1,
\* the L mod N larger ones first, whose concatenation is l.
C8_Chunking == ci = cn =>
  LET d == Len(cl) \div cn
      r == Len(cl) % cn
  IN /\ Len(out) = cn
     /\ Len(Concat(out)) = Len(cl)
     /\ \A i, j \in 1..cn : Len(out[i]) - Len(out[j]) \in {-1, 0, 1}
     /\ \A i \in 1..cn : Len(out[i]) = IF i <= r THEN d + 1 ELSE d
     /\ Concat(out) = cl

C8_Witness == ci = cn /\ cn >= 3 /\ Len(cl) % cn > 0 /\ Len(cl) > cn

\* The two forms the claim accepts: HEX, or HEX..HEX with a literal "..".
ClaimHex(s, a, b) == b <= Len(s) /\ \A k \in a..b : s[k] \in HexChars
ClaimSingle(s) == \E i \in 4..6 : Len(s) = i /\ ClaimHex(s, 1, i)
ClaimPair(s) == \E i, j \in 4..6 : Len(s) = i + 2 + j /\ ClaimHex(s, 1, i)
                   /\ s[i + 1] = "." /\ s[i + 2] = "." /\ ClaimHex(s, i + 3, i + 2 + j)
ClaimBegin(s) == IF ClaimSingle(s) THEN HexVal(s, 1, Len(s))
                 ELSE HexVal(s, 1, CHOOSE i \in 4..6 : s[i + 1] = "." /\ ClaimHex(s, 1, i))
ClaimEnd(s) == IF ClaimSingle(s) THEN HexVal(s, 1, Len(s))
               ELSE HexVal(s, 3 + CHOOSE i \in 4..6 : s[i + 1] = "." /\ ClaimHex(s, 1, i), Len(s))
ClaimAccepts(s) == (ClaimSingle(s) \/ ClaimPair(s)) /\
                   ClaimBegin(s) <= ClaimEnd(s) /\ ClaimEnd(s) <= MaxCodePoint

\* C9: from_str accepts exactly HEX and HEX..HEX (4-6 hex digits, literal '..')
\* with begin <= end <= 0x10FFFF and fails on every other string; membership in
\* the result is inclusive at both ends.
C9_ParseRange == rres.state = "done" =>
  /\ rres.ok <=> ClaimAccepts(rs)
  /\ rres.ok => /\ rres.b = ClaimBegin(rs) /\ rres.e = ClaimEnd(rs)
                /\ InRange(rres.b, <<rres.b, rres.e>>) /\ InRange(rres.e, <<rres.b, rres.e>>)
                /\ ~InRange(rres.b - 1, <<rres.b, rres.e>>) /\ ~InRange(rres.e + 1, <<rres.b, rres.e>>)

\* The kind current at record k: Numeric, switched to String at the record
\* whose abbreviation is bmg and to Enumerated at the record whose abbreviation is age.
RECURSIVE KindAt(_)
KindAt(k) == IF k = 0 THEN "NUM"
             ELSE IF aRecs[k][1] = "bmg" THEN "STR"
             ELSE IF aRecs[k][1] = "age" THEN "ENM"
             ELSE KindAt(k - 1)

\* C11: parse_propertytypes assigns every name and alias of each record the
\* kind current at that record, in file order, the triggering record included.
C11_KindFold == KindDone =>
  \A k \in 1..Len(aRecs) : \A i \in DOMAIN aRecs[k] : tMap[aRecs[k][i]] = KindAt(k)

C11_Witness == KindDone /\ Len(aRecs) = 2 /\ aRecs[1][1] = "bmg" /\ Len(aRecs[1]) = 3
               /\ aRecs[2][1] = "age"

====
